---- MODULE Spec2Model ----
(***************************************************************************)
(* Forward-message protocol of the istanbul proxy package.                 *)
(*                                                                         *)
(*   proxiedValidatorEngine.SendForwardMsg  (validator side, send path)    *)
(*   proxyEngine.handleForwardMsg           (proxy side, receive path)     *)
(*                                                                         *)
(* The proxy handler (proxy set, validator assignments, running flag), the *)
(* proxied-validator registration callbacks and the RLP codec live outside *)
(* the two source files; they are modelled from the design document.       *)
(***************************************************************************)
EXTENDS Integers, Sequences, FiniteSets, TLC

(***************************************************************************)
(* Bounds of the model.                                                    *)
(***************************************************************************)
\* longest validatorAddresses list handed to SendForwardMsg
MaxAddresses == 2
\* longest explicit proxyPeers list handed to SendForwardMsg
MaxPeers == 2
\* latest instant of the clock
MaxTime == 2
\* longest list of validator enodes in a valEnodesShareData
MaxValEnodes == 2

(***************************************************************************)
(* Values.  A nil []byte and a nil []common.Address are values distinct    *)
(* from the empty slice.                                                   *)
(***************************************************************************)
NilBytes == <<-1>>
NilAddrs == << <<-1>> >>
NilPeer == "nilPeer"
NilErr == "nil"

AddressLength == 20
FwdMsg == 20
EnodeCertificateMsg == 23
ConsensusMsg == 17

RECURSIVE Zeros(_)
Zeros(n) == IF n = 0 THEN <<>> ELSE <<0>> \o Zeros(n - 1)

\* the i-th validator address: AddressLength bytes
Addr(i) == Zeros(AddressLength - 1) \o <<i>>
\* the remote validators
Addresses == {Addr(1), Addr(2)}

(***************************************************************************)
(* RLP, restricted to inputs shorter than 256 bytes.                       *)
(***************************************************************************)
EncodeString(b) ==
    IF Len(b) = 1 /\ b[1] < 128 THEN b
    ELSE IF Len(b) <= 55 THEN <<128 + Len(b)>> \o b
    ELSE <<184, Len(b)>> \o b

EncodeListOf(body) ==
    IF Len(body) <= 55 THEN <<192 + Len(body)>> \o body
    ELSE <<248, Len(body)>> \o body

EncodeUint(n) ==
    IF n = 0 THEN <<128>>
    ELSE IF n < 128 THEN <<n>>
    ELSE IF n < 256 THEN <<129, n>>
    ELSE <<130, n \div 256, n % 256>>

RECURSIVE Flatten(_)
Flatten(ss) == IF ss = <<>> THEN <<>> ELSE Head(ss) \o Flatten(Tail(ss))

\* a nil slice is written as the empty list
EncodeAddresses(addrs) ==
    IF addrs = NilAddrs THEN EncodeListOf(<<>>)
    ELSE EncodeListOf(Flatten([i \in 1..Len(addrs) |-> EncodeString(addrs[i])]))

\* ForwardMessage{Code, DestAddresses, Msg}
EncodeForwardMessage(fwd) ==
    EncodeListOf(EncodeUint(fwd.Code) \o EncodeAddresses(fwd.DestAddresses)
                 \o EncodeString(fwd.Msg))

\* Message{Code, Msg, Address, Signature}
MessagePayload(m) ==
    EncodeListOf(EncodeUint(m.Code) \o EncodeString(m.Msg)
                 \o EncodeString(m.Address) \o EncodeString(m.Signature))

BadItem == [ok |-> FALSE, kind |-> "", body |-> <<>>, rest |-> <<>>]

Item(kind, b, from, len) ==
    IF Len(b) < from - 1 + len THEN BadItem
    ELSE [ok |-> TRUE, kind |-> kind,
          body |-> SubSeq(b, from, from - 1 + len),
          rest |-> SubSeq(b, from + len, Len(b))]

\* split the first RLP item off b
Split(b) ==
    IF b = <<>> THEN BadItem
    ELSE LET t == b[1] IN
         IF t < 0 \/ t > 255 THEN BadItem
         ELSE IF t < 128 THEN Item("str", b, 1, 1)
         ELSE IF t < 184 THEN
              LET it == Item("str", b, 2, t - 128) IN
              IF it.ok /\ Len(it.body) = 1 /\ it.body[1] < 128 THEN BadItem ELSE it
         ELSE IF t = 184 THEN
              IF Len(b) < 2 \/ b[2] <= 55 THEN BadItem ELSE Item("str", b, 3, b[2])
         ELSE IF t < 192 THEN BadItem
         ELSE IF t < 248 THEN Item("list", b, 2, t - 192)
         ELSE IF t = 248 THEN
              IF Len(b) < 2 \/ b[2] <= 55 THEN BadItem ELSE Item("list", b, 3, b[2])
         ELSE BadItem

\* the items of a list body; <<BadItem>> in front when the body is malformed
RECURSIVE Items(_)
Items(body) ==
    IF body = <<>> THEN <<>>
    ELSE LET it == Split(body) IN
         IF ~it.ok THEN <<BadItem>>
         ELSE LET more == Items(it.rest) IN
              IF more # <<>> /\ ~more[1].ok THEN <<BadItem>> ELSE <<it>> \o more

\* the one top-level list of b, as its items
TopList(b) ==
    LET top == Split(b) IN
    IF ~top.ok \/ top.kind # "list" \/ top.rest # <<>> THEN <<BadItem>>
    ELSE Items(top.body)

RECURSIVE BigEndian(_)
BigEndian(bs) ==
    IF bs = <<>> THEN 0 ELSE 256 * BigEndian(SubSeq(bs, 1, Len(bs) - 1)) + bs[Len(bs)]

IsUint(it) == it.kind = "str" /\ Len(it.body) <= 8 /\ (it.body = <<>> \/ it.body[1] # 0)
IsString(it) == it.kind = "str"
IsAddress(it) == it.kind = "str" /\ Len(it.body) = AddressLength

BadValue == [ok |-> FALSE]

\* Message.FromPayload(payload, nil)
FromPayload(payload) ==
    LET its == TopList(payload) IN
    IF Len(its) # 4 \/ ~its[1].ok THEN BadValue
    ELSE IF ~(IsUint(its[1]) /\ IsString(its[2]) /\ IsAddress(its[3]) /\ IsString(its[4]))
         THEN BadValue
    ELSE [ok |-> TRUE, Code |-> BigEndian(its[1].body), Msg |-> its[2].body,
          Address |-> its[3].body, Signature |-> its[4].body]

\* Message.Decode(&fwdMsg)
DecodeForwardMessage(msg) ==
    LET its == TopList(msg) IN
    IF Len(its) # 3 \/ ~its[1].ok THEN BadValue
    ELSE IF ~(IsUint(its[1]) /\ its[2].kind = "list" /\ IsString(its[3])) THEN BadValue
    ELSE LET as == Items(its[2].body) IN
         IF \E i \in 1..Len(as) : ~as[i].ok \/ ~IsAddress(as[i]) THEN BadValue
         ELSE [ok |-> TRUE, Code |-> BigEndian(its[1].body),
               DestAddresses |-> [i \in 1..Len(as) |-> as[i].body],
               Msg |-> its[3].body]

\* a nil []sharedValidatorEnode
NilValEnodes == <<[Address |-> <<>>, EnodeURL |-> <<>>, Version |-> -1]>>

\* sharedValidatorEnode{Address, EnodeURL, Version}, a struct: the list of
\* its fields in their order
EncodeSharedValidatorEnode(sve) ==
    EncodeListOf(EncodeString(sve.Address) \o EncodeString(sve.EnodeURL)
                 \o EncodeUint(sve.Version))

EncodeValEnodes(valEnodes) ==
    IF valEnodes = NilValEnodes THEN EncodeListOf(<<>>)
    ELSE EncodeListOf(Flatten([i \in 1..Len(valEnodes) |->
                                  EncodeSharedValidatorEnode(valEnodes[i])]))

\* the ValEnodes written as they are, without the list around them
EncodeRLPWithoutList(sd) == EncodeValEnodes(sd.ValEnodes)

\* valEnodesShareData.EncodeRLP: rlp.Encode(w, []interface{}{sd.ValEnodes})
EncodeRLP(sd) == EncodeListOf(EncodeValEnodes(sd.ValEnodes))

DecodeSharedValidatorEnode(it) ==
    IF ~it.ok \/ it.kind # "list" THEN BadValue
    ELSE LET fs == Items(it.body) IN
         IF Len(fs) # 3 \/ ~fs[1].ok THEN BadValue
         ELSE IF ~(IsAddress(fs[1]) /\ IsString(fs[2]) /\ IsUint(fs[3])) THEN BadValue
         ELSE [ok |-> TRUE, Address |-> fs[1].body, EnodeURL |-> fs[2].body,
               Version |-> BigEndian(fs[3].body)]

\* valEnodesShareData.DecodeRLP: s.Decode(&msg) for a struct with the one
\* field ValEnodes, then sd.ValEnodes = msg.ValEnodes
DecodeRLP(b) ==
    LET its == TopList(b) IN
    IF Len(its) # 1 \/ ~its[1].ok \/ its[1].kind # "list" THEN BadValue
    ELSE LET rs == Items(its[1].body)
             ds == [i \in 1..Len(rs) |-> DecodeSharedValidatorEnode(rs[i])]
         IN IF \E i \in 1..Len(ds) : ~ds[i].ok THEN BadValue
            ELSE [ok |-> TRUE,
                  ValEnodes |-> [i \in 1..Len(ds) |->
                                    [Address |-> ds[i].Address, EnodeURL |-> ds[i].EnodeURL,
                                     Version |-> ds[i].Version]]]


(***************************************************************************)
(* Peers.  A consensus.Peer is a connection handle; Node().ID() is the     *)
(* node it is connected to.  Two handles may lead to the same node (a      *)
(* second connection of the same node).                                    *)
(***************************************************************************)
\* handles the proxied validator holds towards proxies
ProxyPeers == {"c1", "c1b", "c2"}
\* handles the proxy holds towards the nodes that connect to it
ValidatorPeers == {"v", "vb", "x"}

NodeID(peer) ==
    CASE peer \in {"c1", "c1b"} -> "proxy1"
      [] peer = "c2" -> "proxy2"
      [] peer \in {"v", "vb"} -> "validator"
      [] OTHER -> "stranger"

ProxyIDs == {NodeID(c) : c \in ProxyPeers}

\* inner (already signed) consensus payloads
Payload1 == <<170, 3>>
Payload2 == <<5>>
\* address of the proxied validator itself (backend.Address())
ValidatorAddress == Addr(0)

ErrStoppedProxyHandler == "proxy handler is not running"
ErrDecodeMessage == "rlp: message"
ErrDecodeForwardMessage == "rlp: forward message"
ErrInvalidEnodeCertificate == "invalid enode certificate"
ErrMulticast == "multicast failed"

VARIABLES
    running,              \* proxy handler thread is running
    proxies,              \* proxy set: proxy node id -> proxy{node, peer}
    assignments,          \* handler: assigned validator address -> proxy node id
    pc,                   \* position of the SendForwardMsg caller
    args,                 \* arguments of the SendForwardMsg call
    valAssignments,       \* local of SendForwardMsg: address -> proxy, as retrieved
    lookupErr,            \* local of SendForwardMsg: err of GetValidatorAssignments
    proxyToAddressesMap,  \* local of SendForwardMsg: peer -> addresses
    remaining,            \* keys of proxyToAddressesMap the range loop has not visited
    unicasts,             \* backend.Unicast calls of the call: peer -> what it was sent
    sendErr,              \* value returned by SendForwardMsg
    proxiedValidator,     \* proxyEngine.proxiedValidator
    hfm,                  \* the last handleForwardMsg call and what it did
    now,                  \* the clock (time.Now())
    flap,                 \* history: the disconnect of a proxy that was the engine's
                          \* last operation, or that and the reconnect right after it
    registration,         \* history: the last (un)registration of a proxied validator
    wire                  \* a value on its way through the RLP codec

sendVars == <<pc, args, valAssignments, lookupErr, proxyToAddressesMap, remaining, unicasts, sendErr>>
handlerVars == <<running, proxies, assignments, now, flap>>
proxyVars == <<proxiedValidator, hfm, registration>>
codecVars == <<wire>>
vars == <<running, proxies, assignments, pc, args, valAssignments, lookupErr,
          proxyToAddressesMap,
          remaining, unicasts, sendErr, proxiedValidator, hfm,
          now, flap, registration, wire>>

\* the empty Go map
EmptyMap == [k \in {} |-> k]
\* m with key k set to v, and m without key k
MapSet(m, k, v) == [x \in DOMAIN m \cup {k} |-> IF x = k THEN v ELSE m[x]]
MapDelete(m, k) == [x \in DOMAIN m \ {k} |-> m[x]]

\* a nil *proxy, and a nil []consensus.Peer
NoProxy == [node |-> "nil", peer |-> NilPeer, disconnectTS |-> 0]
NilPeers == <<NilPeer>>

NoArgs == [proxyPeers |-> <<>>, validatorAddresses |-> <<>>, ethMsgCode |-> 0,
           payload |-> NilBytes, proxySpecificPayloads |-> EmptyMap]
NoCall == [called |-> FALSE, registered |-> NilPeer, peer |-> NilPeer,
           payload |-> NilBytes, handled |-> FALSE, err |-> NilErr, backend |-> <<>>]

\* no disconnect to remember, no registration yet, nothing in the codec
NoFlap == [op |-> "none", id |-> "nil", at |-> 0, proxies |-> EmptyMap,
           assignments |-> EmptyMap]
NoRegistration == [op |-> "none", peer |-> NilPeer, before |-> NilPeer]
NoWire == [stage |-> "none"]

Init ==
    /\ running = FALSE
    /\ proxies = EmptyMap
    /\ assignments = EmptyMap
    /\ pc = "idle"
    /\ args = NoArgs
    /\ valAssignments = EmptyMap
    /\ lookupErr = NilErr
    /\ proxyToAddressesMap = EmptyMap
    /\ remaining = {}
    /\ unicasts = EmptyMap
    /\ sendErr = NilErr
    /\ proxiedValidator = NilPeer
    /\ hfm = NoCall
    /\ now = 0
    /\ flap = NoFlap
    /\ registration = NoRegistration
    /\ wire = NoWire


(***************************************************************************)
(* Proxy handler of the proxied validator: the proxy set and the validator *)
(* assignments.  Operations on a stopped handler fail and change nothing.  *)
(***************************************************************************)
Start ==
    /\ ~running
    /\ running' = TRUE
    /\ flap' = NoFlap
    /\ UNCHANGED <<proxies, assignments, now, sendVars, proxyVars, codecVars>>

Stop ==
    /\ running
    /\ running' = FALSE
    /\ flap' = NoFlap
    /\ UNCHANGED <<proxies, assignments, now, sendVars, proxyVars, codecVars>>

\* AddProxy(node, externalNode): a new proxy starts without a peer, its
\* disconnectTS is the time it was added
AddProxy(id) ==
    /\ running
    /\ id \notin DOMAIN proxies
    /\ proxies' = MapSet(proxies, id, [node |-> id, peer |-> NilPeer, disconnectTS |-> now])
    /\ flap' = NoFlap
    /\ UNCHANGED <<running, assignments, now, sendVars, proxyVars, codecVars>>

\* RemoveProxy(node): the validators the proxy served go to the proxies
\* that are left, or become unassigned when none is left
RemoveProxy(id) ==
    /\ running
    /\ id \in DOMAIN proxies
    /\ proxies' = MapDelete(proxies, id)
    /\ LET left == DOMAIN proxies \ {id}
           served == {a \in DOMAIN assignments : assignments[a] = id}
       IN IF left = {}
          THEN assignments' = [a \in DOMAIN assignments \ served |-> assignments[a]]
          ELSE \E to \in [served -> left] :
                 assignments' = [a \in DOMAIN assignments |->
                                      IF a \in served THEN to[a] ELSE assignments[a]]
    /\ flap' = NoFlap
    /\ UNCHANGED <<running, now, sendVars, proxyVars, codecVars>>

\* RegisterProxyPeer(proxyPeer): the peer of a configured proxy connected
RegisterProxyPeer(peer) ==
    /\ running
    /\ NodeID(peer) \in DOMAIN proxies
    /\ proxies' = [proxies EXCEPT ![NodeID(peer)].peer = peer]
    /\ flap' = IF flap.op = "disconnected" /\ flap.id = NodeID(peer)
               THEN [flap EXCEPT !.op = "reconnected"]
               ELSE NoFlap
    /\ UNCHANGED <<running, assignments, now, sendVars, proxyVars, codecVars>>

\* a disconnect that takes the proxy's validators away from it
UnregisterProxyPeerAndUnassign(peer) ==
    /\ running
    /\ NodeID(peer) \in DOMAIN proxies
    /\ proxies[NodeID(peer)].peer = peer
    /\ proxies' = [proxies EXCEPT ![NodeID(peer)].peer = NilPeer,
                                  ![NodeID(peer)].disconnectTS = now]
    /\ assignments' = [a \in {x \in DOMAIN assignments : assignments[x] # NodeID(peer)} |->
                           assignments[a]]
    /\ flap' = [op |-> "disconnected", id |-> NodeID(peer), at |-> now,
                proxies |-> proxies, assignments |-> assignments]
    /\ UNCHANGED <<running, now, sendVars, proxyVars, codecVars>>

\* UnregisterProxyPeer(proxyPeer): the peer of a proxy disconnected; the
\* proxy keeps its assignments, its disconnectTS is the time of the disconnect
UnregisterProxyPeer(peer) ==
    /\ running
    /\ NodeID(peer) \in DOMAIN proxies
    /\ proxies[NodeID(peer)].peer = peer
    /\ proxies' = [proxies EXCEPT ![NodeID(peer)].peer = NilPeer,
                                  ![NodeID(peer)].disconnectTS = now]
    /\ flap' = [op |-> "disconnected", id |-> NodeID(peer), at |-> now,
                proxies |-> proxies, assignments |-> assignments]
    /\ UNCHANGED <<running, assignments, now, sendVars, proxyVars, codecVars>>

\* the handler (re)assigns a remote validator to one of the known proxies
AssignValidator(address, id) ==
    /\ running
    /\ id \in DOMAIN proxies
    /\ assignments' = MapSet(assignments, address, id)
    /\ flap' = NoFlap
    /\ UNCHANGED <<running, proxies, now, sendVars, proxyVars, codecVars>>

\* time passes
Tick ==
    /\ now < MaxTime
    /\ now' = now + 1
    /\ UNCHANGED <<running, proxies, assignments, flap, sendVars, proxyVars, codecVars>>

\* ph.GetValidatorAssignments(validatorAddresses): one request served by the
\* handler thread; the proxies of the assigned addresses, as they are now
GetValidatorAssignments(validatorAddresses) ==
    IF ~running THEN [err |-> ErrStoppedProxyHandler, assignments |-> EmptyMap]
    ELSE LET asked == {validatorAddresses[i] : i \in 1..Len(validatorAddresses)}
         IN [err |-> NilErr,
             assignments |-> [a \in asked \cap DOMAIN assignments |->
                                proxies[assignments[a]]]]


(***************************************************************************)
(* proxiedValidatorEngine.SendForwardMsg                                   *)
(***************************************************************************)
\* an assignment instead of the append: the peer keeps its last address only
OverwriteAddress(m, peer, valAddress) == MapSet(m, peer, <<valAddress>>)

\* an append that reaches the address list of every proxy collected so far
AppendToEveryProxy(m, peer, valAddress) ==
    [x \in DOMAIN m \cup {peer} |->
        (IF x \in DOMAIN m THEN m[x] ELSE <<>>) \o <<valAddress>>]

\* proxyToAddressesMap[proxy.peer] = append(proxyToAddressesMap[proxy.peer], valAddress)
AppendAddress(m, peer, valAddress) ==
    MapSet(m, peer, (IF peer \in DOMAIN m THEN m[peer] ELSE <<>>) \o <<valAddress>>)

\* a grouping that does not look at whether the proxy has a peer
RECURSIVE GroupWithoutPeerCheck(_, _, _)
GroupWithoutPeerCheck(retrieved, order, m) ==
    IF order = <<>> THEN m
    ELSE GroupWithoutPeerCheck(retrieved, Tail(order),
             AppendAddress(m, retrieved[Head(order)].peer, Head(order)))

\* the range loop over valAssignments, visiting the addresses in `order`
RECURSIVE GroupByProxy(_, _, _)
GroupByProxy(retrieved, order, m) ==
    IF order = <<>> THEN m
    ELSE LET valAddress == Head(order)
             proxy == retrieved[valAddress]
         IN GroupByProxy(retrieved, Tail(order),
                IF proxy # NoProxy /\ proxy.peer # NilPeer
                THEN AppendAddress(m, proxy.peer, valAddress)
                ELSE m)

\* only the first of the given proxy peers
FirstExplicitProxy(proxyPeers) ==
    [p \in {proxyPeers[i] : i \in 1..Len(proxyPeers) \cap {1}} |-> NilAddrs]

\* the given proxy peers, each with a nil address list
ExplicitProxies(proxyPeers) ==
    [p \in {proxyPeers[i] : i \in 1..Len(proxyPeers)} |-> NilAddrs]

\* a specific payload of any proxy taken for every proxy
AnySpecificPayload(payload, proxySpecificPayloads, proxyPeer) ==
    IF DOMAIN proxySpecificPayloads # {}
    THEN proxySpecificPayloads[CHOOSE id \in DOMAIN proxySpecificPayloads : TRUE]
    ELSE payload

\* a nil specific payload replaced by the shared payload
SharedPayloadForNilOverride(payload, proxySpecificPayloads, proxyPeer) ==
    IF NodeID(proxyPeer) \in DOMAIN proxySpecificPayloads
       /\ proxySpecificPayloads[NodeID(proxyPeer)] # NilBytes
    THEN proxySpecificPayloads[NodeID(proxyPeer)]
    ELSE payload

\* the payload for one proxy: its specific payload when the map has one
MsgToForward(payload, proxySpecificPayloads, proxyPeer) ==
    IF NodeID(proxyPeer) \in DOMAIN proxySpecificPayloads
    THEN proxySpecificPayloads[NodeID(proxyPeer)]
    ELSE payload

\* an envelope that falls back to the addresses of the call when the proxy
\* has no address list of its own
FwdMsgPayloadWithRequested(ethMsgCode, valAddresses, msgToForward) ==
    MessagePayload([Code |-> FwdMsg,
                    Msg |-> EncodeForwardMessage(
                                [Code |-> ethMsgCode,
                                 DestAddresses |-> IF valAddresses = NilAddrs
                                                   THEN args.validatorAddresses
                                                   ELSE valAddresses,
                                 Msg |-> msgToForward]),
                    Address |-> ValidatorAddress,
                    Signature |-> <<>>])

\* the unsigned istanbul.Message wrapping the ForwardMessage, as bytes
FwdMsgPayload(ethMsgCode, valAddresses, msgToForward) ==
    MessagePayload([Code |-> FwdMsg,
                    Msg |-> EncodeForwardMessage([Code |-> ethMsgCode,
                                                  DestAddresses |-> valAddresses,
                                                  Msg |-> msgToForward]),
                    Address |-> ValidatorAddress,
                    Signature |-> <<>>])

\* a transmission to the peer the proxy has at the time of the transmission
UnicastToCurrentPeer(log, peer, payload, ethMsgCode, sent) ==
    LET current == IF NodeID(peer) \in DOMAIN proxies
                   THEN proxies[NodeID(peer)].peer ELSE NilPeer
    IN MapSet(log, current, (IF current \in DOMAIN log THEN log[current] ELSE <<>>)
                            \o <<[payload |-> payload, ethMsgCode |-> ethMsgCode,
                                  sent |-> sent]>>)

\* backend.Unicast(peer, payload, ethMsgCode): one more transmission to
\* peer, which arrives (sent) or is lost
Unicast(log, peer, payload, ethMsgCode, sent) ==
    MapSet(log, peer, (IF peer \in DOMAIN log THEN log[peer] ELSE <<>>)
                      \o <<[payload |-> payload, ethMsgCode |-> ethMsgCode, sent |-> sent]>>)

\* a loop that a failed transmission ends
StopAtFailure(left, proxyPeer, sent) == IF sent THEN left \ {proxyPeer} ELSE {}

\* the keys left to the range loop after the Unicast to proxyPeer: the
\* result of the transmission is not looked at
RestOfProxies(left, proxyPeer, sent) == left \ {proxyPeer}

ErrUnicast == "unicast failed"
ErrNoProxy == "no proxy assigned"

\* a return that reports a failed transmission
ReturnTransmissionError(log) ==
    IF \E peer \in DOMAIN log : \E i \in 1..Len(log[peer]) : ~log[peer][i].sent
    THEN ErrUnicast ELSE NilErr

\* the value returned after the loop
ReturnAfterLoop(log) == NilErr

\* a lookup error that is logged and then dropped
DropLookupError(err) == NilErr

\* the error of GetValidatorAssignments is returned to the caller as it is
ReturnLookupError(err) == err

\* a return that makes the empty proxy set an error
ReturnNoProxyError(ethMsgCode, validatorAddresses) == ErrNoProxy

\* the value returned when no proxy is assigned to any of the addresses
ReturnNoProxy(ethMsgCode, validatorAddresses) == NilErr

Orders(S) == {o \in [1..Cardinality(S) -> S] : \A i, j \in 1..Cardinality(S) : o[i] = o[j] => i = j}

\* the call up to the send loop (the caller makes one call)
SendForwardMsg(proxyPeers, validatorAddresses, ethMsgCode, payload, proxySpecificPayloads) ==
    /\ pc = "idle"
    /\ args' = [proxyPeers |-> proxyPeers, validatorAddresses |-> validatorAddresses,
                ethMsgCode |-> ethMsgCode, payload |-> payload,
                proxySpecificPayloads |-> proxySpecificPayloads]
    /\ unicasts' = EmptyMap
    /\ IF proxyPeers = NilPeers
       THEN LET got == GetValidatorAssignments(validatorAddresses) IN
            IF got.err # NilErr
            THEN /\ valAssignments' = EmptyMap
                 /\ lookupErr' = got.err
                 /\ proxyToAddressesMap' = EmptyMap
                 /\ remaining' = {}
                 /\ sendErr' = ReturnLookupError(got.err)
                 /\ pc' = "done"
            ELSE \E order \in Orders(DOMAIN got.assignments) :
                   LET m == GroupByProxy(got.assignments, order, EmptyMap) IN
                   /\ valAssignments' = got.assignments
                   /\ lookupErr' = NilErr
                   /\ proxyToAddressesMap' = m
                   /\ remaining' = DOMAIN m
                   /\ sendErr' = IF DOMAIN m = {}
                                 THEN ReturnNoProxy(ethMsgCode, validatorAddresses)
                                 ELSE NilErr
                   /\ pc' = IF DOMAIN m = {} THEN "done" ELSE "loop"
       ELSE LET m == ExplicitProxies(proxyPeers) IN
            /\ valAssignments' = EmptyMap
            /\ lookupErr' = NilErr
            /\ proxyToAddressesMap' = m
            /\ remaining' = DOMAIN m
            /\ sendErr' = NilErr
            /\ pc' = "loop"
    /\ flap' = NoFlap
    /\ UNCHANGED <<running, proxies, assignments, now, proxyVars, codecVars>>

\* one iteration of the send loop, for a key the loop has not visited yet;
\* `sent` is whether the transmission to the peer succeeds
SendToProxy(proxyPeer, sent) ==
    /\ pc = "loop"
    /\ proxyPeer \in remaining
    /\ LET msgToForward == MsgToForward(args.payload, args.proxySpecificPayloads, proxyPeer)
       IN IF msgToForward # NilBytes
          THEN /\ unicasts' = Unicast(unicasts, proxyPeer,
                                       FwdMsgPayload(args.ethMsgCode,
                                                     proxyToAddressesMap[proxyPeer],
                                                     msgToForward),
                                       FwdMsg, sent)
               /\ remaining' = RestOfProxies(remaining, proxyPeer, sent)
          ELSE /\ sent
               /\ unicasts' = unicasts
               /\ remaining' = remaining \ {proxyPeer}
    /\ UNCHANGED <<pc, args, valAssignments, lookupErr, proxyToAddressesMap, sendErr,
                   handlerVars, proxyVars, codecVars>>

\* the loop is over: return nil
SendForwardMsgReturn ==
    /\ pc = "loop"
    /\ remaining = {}
    /\ sendErr' = ReturnAfterLoop(unicasts)
    /\ pc' = "done"
    /\ UNCHANGED <<args, valAssignments, lookupErr, proxyToAddressesMap, remaining,
                   unicasts,
                   handlerVars, proxyVars, codecVars>>

(***************************************************************************)
(* The proxied validator: the proxy handler brings the proxy set and the   *)
(* assignments into any state they can have, then one caller runs          *)
(* SendForwardMsg with any arguments.  The call reads the handler's state  *)
(* in one request, GetValidatorAssignments, in its first step; Spec below  *)
(* lets the handler run during the call as well.                           *)
(***************************************************************************)
AddressLists == UNION {[1..n -> Addresses] : n \in 0..MaxAddresses}
PeerLists == UNION {[1..n -> ProxyPeers] : n \in 0..MaxPeers}
Payloads == {NilBytes, Payload1}
SpecificPayloads ==
    {EmptyMap} \cup {[k \in {"proxy1"} |-> b] : b \in {NilBytes, Payload2}}

Handler ==
    \/ Start
    \/ Stop
    \/ \E id \in ProxyIDs : AddProxy(id)
    \/ \E id \in ProxyIDs : RemoveProxy(id)
    \/ \E peer \in ProxyPeers : RegisterProxyPeer(peer)
    \/ \E peer \in ProxyPeers : UnregisterProxyPeer(peer)
    \/ \E address \in Addresses, id \in ProxyIDs : AssignValidator(address, id)

SendLoop ==
    \/ \E proxyPeer \in ProxyPeers, sent \in BOOLEAN : SendToProxy(proxyPeer, sent)
    \/ SendForwardMsgReturn

NextSend ==
    \/ pc = "idle" /\ Handler
    \/ \E payload \in Payloads, proxySpecificPayloads \in SpecificPayloads :
          \/ \E validatorAddresses \in AddressLists :
                SendForwardMsg(NilPeers, validatorAddresses, ConsensusMsg, payload,
                               proxySpecificPayloads)
          \/ \E proxyPeers \in PeerLists :
                SendForwardMsg(proxyPeers, <<Addr(1), Addr(2)>>, ConsensusMsg, payload,
                               proxySpecificPayloads)
    \/ SendLoop

SpecSend == Init /\ [][NextSend]_vars

(***************************************************************************)
(* The proxy handler alone, over time.                                     *)
(***************************************************************************)
NextHandler ==
    \/ Handler
    \/ Tick

SpecHandler == Init /\ [][NextHandler]_vars

(***************************************************************************)
(* proxyEngine: the registration of the proxied validator, and             *)
(* handleForwardMsg.                                                       *)
(***************************************************************************)
\* RegisterProxiedValidatorPeer(proxiedValidatorPeer): saves the peer; a
\* second registration replaces the first
RegisterProxiedValidatorPeer(peer) ==
    /\ proxiedValidator' = peer
    /\ registration' = [op |-> "register", peer |-> peer, before |-> proxiedValidator]
    /\ UNCHANGED <<hfm, handlerVars, sendVars, codecVars>>

\* an unregistration that removes whatever peer is registered
UnregisterAnyProxiedValidatorPeer(peer) ==
    /\ proxiedValidator' = NilPeer
    /\ registration' = [op |-> "unregister", peer |-> peer, before |-> proxiedValidator]
    /\ UNCHANGED <<hfm, handlerVars, sendVars, codecVars>>

\* UnregisterProxiedValidatorPeer(proxiedValidatorPeer): removes the peer
\* when it is the registered one, and does nothing otherwise
UnregisterProxiedValidatorPeer(peer) ==
    /\ proxiedValidator' = IF proxiedValidator = peer THEN NilPeer ELSE proxiedValidator
    /\ registration' = [op |-> "unregister", peer |-> peer, before |-> proxiedValidator]
    /\ UNCHANGED <<hfm, handlerVars, sendVars, codecVars>>

\* a check that only asks whether a proxied validator is registered
FromAnyPeerOnceRegistered(registered, peer) == registered # NilPeer

\* a check that lets every peer through while no proxied validator is registered
FromProxiedValidatorOrNoneRegistered(registered, peer) ==
    registered = NilPeer \/ NodeID(registered) = NodeID(peer)

\* the check that the message comes from the proxied validator
FromProxiedValidator(registered, peer) ==
    ~(registered = NilPeer \/ NodeID(registered) # NodeID(peer))

\* a call of the backend or of the enode certificate handler, and its outcome
BackendCall(name, destAddresses, msg, code, ok) ==
    [call |-> name, destAddresses |-> destAddresses, msg |-> msg, code |-> code, ok |-> ok]

Returned(handled, err, calls) == [handled |-> handled, err |-> err, backend |-> calls]

\* the enode certificate handling of a decoded forward message: none unless
\* the code is EnodeCertificateMsg
CertificateHandling(fwdMsg, certOk) ==
    IF fwdMsg.Code = EnodeCertificateMsg
    THEN <<BackendCall("handleEnodeCertificateFromFwdMsg", <<>>, fwdMsg.Msg, fwdMsg.Code, certOk)>>
    ELSE <<>>

\* a multicast that loses the destination addresses
MulticastWithoutDestinations(fwdMsg, multicastOk) ==
    BackendCall("Multicast", <<>>, fwdMsg.Msg, fwdMsg.Code, multicastOk)

\* p.backend.Multicast(fwdMsg.DestAddresses, fwdMsg.Msg, fwdMsg.Code, false)
Multicast(fwdMsg, multicastOk) ==
    BackendCall("Multicast", fwdMsg.DestAddresses, fwdMsg.Msg, fwdMsg.Code, multicastOk)

\* a forwarding that drops the error of the multicast
ForwardIgnoringMulticastError(fwdMsg, certOk, multicastOk) ==
    LET cert == CertificateHandling(fwdMsg, certOk) IN
    IF cert # <<>> /\ ~certOk THEN Returned(TRUE, ErrInvalidEnodeCertificate, cert)
    ELSE Returned(TRUE, NilErr, cert \o <<Multicast(fwdMsg, multicastOk)>>)

\* a forwarding that multicasts first and checks the certificate afterwards
ForwardBeforeChecking(fwdMsg, certOk, multicastOk) ==
    LET cert == CertificateHandling(fwdMsg, certOk) IN
    IF ~multicastOk THEN Returned(TRUE, ErrMulticast, <<Multicast(fwdMsg, multicastOk)>>)
    ELSE IF cert # <<>> /\ ~certOk
         THEN Returned(TRUE, ErrInvalidEnodeCertificate, <<Multicast(fwdMsg, multicastOk)>> \o cert)
    ELSE Returned(TRUE, NilErr, <<Multicast(fwdMsg, multicastOk)>> \o cert)

\* the decoded forward message is checked (when it carries an enode
\* certificate) and then multicast
Forward(fwdMsg, certOk, multicastOk) ==
    LET cert == CertificateHandling(fwdMsg, certOk) IN
    IF cert # <<>> /\ ~certOk THEN Returned(TRUE, ErrInvalidEnodeCertificate, cert)
    ELSE IF ~multicastOk
         THEN Returned(TRUE, ErrMulticast, cert \o <<Multicast(fwdMsg, multicastOk)>>)
    ELSE Returned(TRUE, NilErr, cert \o <<Multicast(fwdMsg, multicastOk)>>)

\* handleForwardMsg for a message of the proxied validator: decode the
\* istanbul message, decode the forward message in it, forward
Unwrap(payload, certOk, multicastOk) ==
    LET istMsg == FromPayload(payload) IN
    IF ~istMsg.ok THEN Returned(TRUE, ErrDecodeMessage, <<>>)
    ELSE LET fwdMsg == DecodeForwardMessage(istMsg.Msg) IN
         IF ~fwdMsg.ok THEN Returned(TRUE, ErrDecodeForwardMessage, <<>>)
         ELSE Forward(fwdMsg, certOk, multicastOk)

\* handleForwardMsg(peer, payload); certOk and multicastOk are what the
\* certificate handler and the backend would answer (the proxy is handed
\* one message)
handleForwardMsg(peer, payload, certOk, multicastOk) ==
    /\ ~hfm.called
    /\ hfm' = [called |-> TRUE, registered |-> proxiedValidator, peer |-> peer,
               payload |-> payload] @@
              (IF FromProxiedValidator(proxiedValidator, peer)
               THEN Unwrap(payload, certOk, multicastOk)
               ELSE Returned(FALSE, NilErr, <<>>))
    /\ UNCHANGED <<proxiedValidator, registration, handlerVars, sendVars, codecVars>>


(***************************************************************************)
(* The proxy alone: any peer hands it any payload, well-formed or not.     *)
(***************************************************************************)
Codes == {EnodeCertificateMsg, ConsensusMsg}

\* payloads SendForwardMsg can produce
WellFormed ==
    {FwdMsgPayload(code, dest, msg) :
        code \in Codes, dest \in AddressLists \cup {NilAddrs}, msg \in {Payload1, Payload2, <<>>}}

Sample == FwdMsgPayload(ConsensusMsg, <<Addr(1)>>, Payload1)
SampleForward == [Code |-> EnodeCertificateMsg, DestAddresses |-> <<Addr(1)>>, Msg |-> Payload1]
Wrap(msg) == MessagePayload([Code |-> FwdMsg, Msg |-> msg,
                             Address |-> ValidatorAddress, Signature |-> <<>>])

\* payloads that are no istanbul message
MalformedMessage ==
    {NilBytes, <<>>, <<192>>, <<5>>, SubSeq(Sample, 1, Len(Sample) - 1), Sample \o <<0>>,
     EncodeListOf(EncodeUint(FwdMsg) \o EncodeString(Payload1))}

\* istanbul messages whose Msg is no forward message
MalformedForward ==
    {Wrap(<<>>), Wrap(<<192>>), Wrap(<<1, 2, 3>>),
     Wrap(EncodeListOf(EncodeUint(ConsensusMsg) \o EncodeListOf(EncodeString(<<1, 2>>))
                       \o EncodeString(Payload1))),
     Wrap(EncodeForwardMessage(SampleForward) \o <<0>>),
     Wrap(EncodeListOf(<<0>> \o EncodeAddresses(<<>>) \o EncodeString(Payload1)))}

\* forward messages inside an istanbul message of another code and sender
Unusual ==
    {MessagePayload([Code |-> ConsensusMsg, Msg |-> EncodeForwardMessage(SampleForward),
                     Address |-> Addr(1), Signature |-> <<7>>])}

Received == WellFormed \cup MalformedMessage \cup MalformedForward \cup Unusual

Registration ==
    \/ \E peer \in ValidatorPeers : RegisterProxiedValidatorPeer(peer)
    \/ \E peer \in ValidatorPeers : UnregisterProxiedValidatorPeer(peer)

NextProxy ==
    \/ Registration
    \/ \E peer \in ValidatorPeers, payload \in Received, certOk, multicastOk \in BOOLEAN :
          handleForwardMsg(peer, payload, certOk, multicastOk)

SpecProxy == Init /\ [][NextProxy]_vars

(***************************************************************************)
(* End to end: a proxied validator with one proxy; what the proxy is       *)
(* handed is what the validator's Unicast transmitted.                     *)
(***************************************************************************)
\* the payloads that reached a proxy
Transmitted ==
    UNION {{unicasts[peer][i].payload :
               i \in {j \in 1..Len(unicasts[peer]) : unicasts[peer][j].sent}} :
           peer \in DOMAIN unicasts}

Next ==
    \/ Start
    \/ Stop
    \/ AddProxy("proxy1")
    \/ RemoveProxy("proxy1")
    \/ RegisterProxyPeer("c1")
    \/ UnregisterProxyPeer("c1")
    \/ \E address \in Addresses : AssignValidator(address, "proxy1")
    \/ \E ethMsgCode \in Codes :
          \/ \E validatorAddresses \in AddressLists :
                SendForwardMsg(NilPeers, validatorAddresses, ethMsgCode, Payload1, EmptyMap)
          \/ \E n \in 0..MaxPeers :
                SendForwardMsg([i \in 1..n |-> "c1"], <<Addr(1)>>, ethMsgCode, Payload1,
                               EmptyMap)
    \/ SendLoop
    \/ \E peer \in {"v", "x"} : RegisterProxiedValidatorPeer(peer)
    \/ \E peer \in {"v", "x"} : UnregisterProxiedValidatorPeer(peer)
    \/ \E peer \in {"v", "x"}, payload \in Transmitted, certOk, multicastOk \in BOOLEAN :
          handleForwardMsg(peer, payload, certOk, multicastOk)

Spec == Init /\ [][Next]_vars

(***************************************************************************)
(* The codec alone: one value is encoded, the bytes are decoded.           *)
(***************************************************************************)
ForwardMessages ==
    [Code : Codes \cup {0, 200}, DestAddresses : AddressLists \cup {NilAddrs},
     Msg : {<<>>, Payload1, Payload2}]

\* enode URLs as bytes, and versions of one, two and three bytes on the wire
EnodeURLs == {<<>>, <<101>>, <<101, 110>>}
Versions == {0, 1, 300}
SharedValidatorEnodes == [Address : Addresses, EnodeURL : EnodeURLs, Version : Versions]
ValEnodesShareDatas ==
    {[ValEnodes |-> l] :
        l \in {NilValEnodes} \cup
              UNION {[1..n -> SharedValidatorEnodes] : n \in 0..MaxValEnodes}}

\* rlp.EncodeToBytes(fwdMessage)
EncodeToBytes(fwdMessage) ==
    /\ wire.stage = "none"
    /\ wire' = [stage |-> "encoded", type |-> "ForwardMessage", value |-> fwdMessage,
                bytes |-> EncodeForwardMessage(fwdMessage)]
    /\ UNCHANGED <<handlerVars, sendVars, proxyVars>>

\* rlp.EncodeToBytes(sd), which calls sd.EncodeRLP
EncodeValEnodesShareData(sd) ==
    /\ wire.stage = "none"
    /\ wire' = [stage |-> "encoded", type |-> "valEnodesShareData", value |-> sd,
                bytes |-> EncodeRLP(sd)]
    /\ UNCHANGED <<handlerVars, sendVars, proxyVars>>

\* the receiver decodes the bytes into a value of the type that was sent
Decode ==
    /\ wire.stage = "encoded"
    /\ wire' = [stage |-> "decoded", type |-> wire.type, value |-> wire.value,
                bytes |-> wire.bytes,
                decoded |-> IF wire.type = "ForwardMessage"
                            THEN DecodeForwardMessage(wire.bytes)
                            ELSE DecodeRLP(wire.bytes)]
    /\ UNCHANGED <<handlerVars, sendVars, proxyVars>>

NextCodec ==
    \/ \E fwdMessage \in ForwardMessages : EncodeToBytes(fwdMessage)
    \/ \E sd \in ValEnodesShareDatas : EncodeValEnodesShareData(sd)
    \/ Decode

SpecCodec == Init /\ [][NextCodec]_vars


(***************************************************************************)
(* Properties of handleForwardMsg.                                         *)
(***************************************************************************)
\* the last handleForwardMsg call came from the node registered as the
\* proxied validator when it was handled
Authorized == hfm.registered # NilPeer /\ NodeID(hfm.registered) = NodeID(hfm.peer)

\* the backend calls of the last handleForwardMsg call, by name
CallsOf(name) == {i \in 1..Len(hfm.backend) : hfm.backend[i].call = name}
Multicasts == CallsOf("Multicast")
CertificateChecks == CallsOf("handleEnodeCertificateFromFwdMsg")

\* the istanbul message and the forward envelope in the handled payload
Outer == FromPayload(hfm.payload)
Envelope == IF Outer.ok THEN DecodeForwardMessage(Outer.Msg) ELSE BadValue

\* C1: a forward message from a peer whose node id is not that of the
\* registered proxied validator (none registered included) returns
\* handled=false and a nil error, whatever the payload
C1_OtherPeerIgnored ==
    (hfm.called /\ ~Authorized) => (hfm.handled = FALSE /\ hfm.err = NilErr)

\* a registered validator, another node sending a payload that does not decode
C1_Witness ==
    /\ hfm.called
    /\ hfm.registered = "v"
    /\ hfm.peer = "x"
    /\ ~Outer.ok
    /\ hfm.handled = FALSE

\* C2: a forward message from the registered proxied validator's node is
\* always handled, and the error is non-nil exactly when the message
\* decoding, the envelope decoding, the certificate handling or the
\* Multicast failed
C2_HandledAndErrorIffStepFails ==
    (hfm.called /\ Authorized) =>
        /\ hfm.handled = TRUE
        /\ (hfm.err # NilErr) <=>
              \/ ~Outer.ok
              \/ ~Envelope.ok
              \/ \E i \in CertificateChecks : ~hfm.backend[i].ok
              \/ \E i \in Multicasts : ~hfm.backend[i].ok
        /\ CertificateChecks # {} => (Envelope.ok /\ Envelope.Code = EnodeCertificateMsg)

\* the validator's message decodes, is no certificate, and the Multicast fails
C2_Witness ==
    /\ hfm.called
    /\ Authorized
    /\ Envelope.ok
    /\ CertificateChecks = {}
    /\ \E i \in Multicasts : ~hfm.backend[i].ok
    /\ hfm.handled
    /\ hfm.err = ErrMulticast

\* C4: for an enode certificate the certificate handling comes before the
\* Multicast, a failed handling leaves the message without Multicast, and
\* a message of another code gets no certificate handling
C4_CertificateBeforeMulticast ==
    (hfm.called /\ Authorized /\ Envelope.ok) =>
        IF Envelope.Code = EnodeCertificateMsg
        THEN /\ CertificateChecks = {1}
             /\ hfm.backend[1].msg = Envelope.Msg
             /\ \A i \in Multicasts : i > 1 /\ hfm.backend[1].ok
             /\ ~hfm.backend[1].ok => (Multicasts = {} /\ hfm.err # NilErr)
        ELSE CertificateChecks = {}

\* an enode certificate that fails the handling: one backend call, no Multicast
C4_Witness ==
    /\ hfm.called
    /\ Authorized
    /\ Envelope.ok
    /\ Envelope.Code = EnodeCertificateMsg
    /\ Len(hfm.backend) = 1
    /\ ~hfm.backend[1].ok
    /\ Multicasts = {}


(***************************************************************************)
(* Properties of SendForwardMsg.                                           *)
(***************************************************************************)
Elements(list) == {list[i] : i \in 1..Len(list)}

\* what the call transmitted to a peer
SentTo(peer) == IF peer \in DOMAIN unicasts THEN unicasts[peer] ELSE <<>>

\* some transmission of the call failed
SomeTransmissionFailed ==
    \E peer \in DOMAIN unicasts : \E i \in 1..Len(unicasts[peer]) : ~unicasts[peer][i].sent

\* the forward envelope inside a transmitted payload
EnvelopeIn(payload) ==
    LET outer == FromPayload(payload) IN
    IF outer.ok THEN DecodeForwardMessage(outer.Msg) ELSE BadValue

\* the payload the caller means for a peer: the one given for the peer's
\* node id, else the shared one
PayloadFor(peer) ==
    IF NodeID(peer) \in DOMAIN args.proxySpecificPayloads
    THEN args.proxySpecificPayloads[NodeID(peer)]
    ELSE args.payload

\* the requested addresses whose retrieved proxy is connected through peer
ResolvedTo(peer) == {a \in DOMAIN valAssignments : valAssignments[a].peer = peer}

\* the call had no explicit proxy peers and the handler answered
Resolving == pc = "done" /\ args.proxyPeers = NilPeers /\ lookupErr = NilErr

\* one envelope went to peer, addressed to exactly the addresses resolved to it
OneEnvelopeWithResolved(peer) ==
    /\ Len(SentTo(peer)) = 1
    /\ LET envelope == EnvelopeIn(SentTo(peer)[1].payload) IN
       /\ envelope.ok
       /\ Elements(envelope.DestAddresses) = ResolvedTo(peer)
       /\ Len(envelope.DestAddresses) = Cardinality(ResolvedTo(peer))

\* C5 as stated: without explicit proxy peers, every peer with a resolved
\* address gets exactly one envelope with exactly the addresses assigned to
\* it, no other peer gets anything, and unassigned addresses are no error
C5_EveryResolvedProxyGetsOneEnvelope ==
    Resolving =>
        /\ sendErr = NilErr
        /\ DOMAIN valAssignments \subseteq Elements(args.validatorAddresses)
        /\ \A peer \in ProxyPeers :
              IF ResolvedTo(peer) # {}
              THEN OneEnvelopeWithResolved(peer)
              ELSE SentTo(peer) = <<>>

\* C5 amended: the same for every peer with a resolved address and a
\* non-nil payload; a peer whose payload is nil gets nothing
C5_EveryResolvedProxyWithPayloadGetsOneEnvelope ==
    Resolving =>
        /\ sendErr = NilErr
        /\ DOMAIN valAssignments \subseteq Elements(args.validatorAddresses)
        /\ \A peer \in ProxyPeers :
              IF ResolvedTo(peer) # {} /\ PayloadFor(peer) # NilBytes
              THEN OneEnvelopeWithResolved(peer)
              ELSE SentTo(peer) = <<>>

\* both addresses resolved to one peer in one envelope, while the call asked
\* for nothing unassigned to fail
C5_Witness ==
    /\ Resolving
    /\ Cardinality(ResolvedTo("c1")) = 2
    /\ Len(SentTo("c1")) = 1
    /\ SentTo("c2") = <<>>

\* C6: with explicit proxy peers, each given peer with a non-nil payload
\* gets exactly one envelope, however often it is listed, and no other
\* peer gets anything, whatever the assignments are
C6_ExactlyTheExplicitProxies ==
    (pc = "done" /\ args.proxyPeers # NilPeers) =>
        \A peer \in ProxyPeers :
            Len(SentTo(peer)) =
                IF peer \in Elements(args.proxyPeers) /\ PayloadFor(peer) # NilBytes
                THEN 1 ELSE 0

\* a peer listed twice gets one envelope, and the connected proxy that the
\* requested addresses are assigned to gets none
C6_Witness ==
    /\ pc = "done"
    /\ args.proxyPeers = <<"c1", "c1">>
    /\ Len(SentTo("c1")) = 1
    /\ SentTo("c2") = <<>>
    /\ "proxy2" \in DOMAIN proxies
    /\ proxies["proxy2"].peer = "c2"
    /\ \E a \in Elements(args.validatorAddresses) :
          a \in DOMAIN assignments /\ assignments[a] = "proxy2"

\* C7: every envelope transmitted to a peer carries the payload given for
\* that peer's node id, or the shared payload when none is given, and the
\* code of the call
C7_PayloadPerProxy ==
    \A peer \in DOMAIN unicasts : \A i \in 1..Len(unicasts[peer]) :
        LET envelope == EnvelopeIn(unicasts[peer][i].payload) IN
        /\ envelope.ok
        /\ envelope.Msg = PayloadFor(peer)
        /\ envelope.Code = args.ethMsgCode
        /\ unicasts[peer][i].ethMsgCode = FwdMsg

\* one call sends the specific payload to one proxy and the shared payload
\* to the other
C7_Witness ==
    /\ {"c1", "c2"} \subseteq DOMAIN unicasts
    /\ "proxy1" \in DOMAIN args.proxySpecificPayloads
    /\ EnvelopeIn(unicasts["c1"][1].payload).Msg = Payload2
    /\ EnvelopeIn(unicasts["c2"][1].payload).Msg = Payload1

\* C8: when no requested address resolves to a connected proxy, the call
\* returns nil and transmits nothing
C8_NoProxyIsSuccess ==
    (Resolving /\ \A peer \in ProxyPeers : ResolvedTo(peer) = {}) =>
        (sendErr = NilErr /\ unicasts = EmptyMap)

\* addresses were asked for, none of them has a connected proxy
C8_Witness ==
    /\ Resolving
    /\ args.validatorAddresses # <<>>
    /\ args.payload # NilBytes
    /\ \A peer \in ProxyPeers : ResolvedTo(peer) = {}
    /\ sendErr = NilErr
    /\ unicasts = EmptyMap

\* C9: a failed transmission does not end the call: every peer the call
\* has a payload for got its transmission
C9_FailureDoesNotAbort ==
    (pc = "done" /\ SomeTransmissionFailed) =>
        \A peer \in DOMAIN proxyToAddressesMap :
            PayloadFor(peer) # NilBytes => SentTo(peer) # <<>>

\* two proxies, the transmission to one failed and the other one arrived
C9_Witness ==
    /\ pc = "done"
    /\ {"c1", "c2"} \subseteq DOMAIN unicasts
    /\ \E p, q \in {"c1", "c2"} : ~unicasts[p][1].sent /\ unicasts[q][1].sent

AsList(addrs) == IF addrs = NilAddrs THEN <<>> ELSE addrs

\* C3: a successful handleForwardMsg makes exactly one Multicast, with the
\* addresses, payload and code the validator put into the envelope; the
\* envelope of SendForwardMsg(nil, [A], code, P) is multicast as (P, code, [A])
C3_EnvelopeMulticastUnmodified ==
    (hfm.called /\ hfm.handled /\ hfm.err = NilErr) =>
        /\ Cardinality(Multicasts) = 1
        /\ \A k \in Multicasts :
              /\ hfm.backend[k].destAddresses = Envelope.DestAddresses
              /\ hfm.backend[k].msg = Envelope.Msg
              /\ hfm.backend[k].code = Envelope.Code
              /\ \A peer \in DOMAIN unicasts : \A i \in 1..Len(unicasts[peer]) :
                    unicasts[peer][i].payload = hfm.payload =>
                        /\ hfm.backend[k].destAddresses = AsList(proxyToAddressesMap[peer])
                        /\ hfm.backend[k].msg = PayloadFor(peer)
                        /\ hfm.backend[k].code = args.ethMsgCode
              /\ (args.proxyPeers = NilPeers /\ Len(args.validatorAddresses) = 1) =>
                    /\ hfm.backend[k].destAddresses = args.validatorAddresses
                    /\ hfm.backend[k].msg = args.payload
                    /\ hfm.backend[k].code = args.ethMsgCode

\* SendForwardMsg(nil, [A], code, P) reached the proxy and was multicast
C3_Witness ==
    /\ hfm.called
    /\ hfm.handled
    /\ hfm.err = NilErr
    /\ args.proxyPeers = NilPeers
    /\ args.validatorAddresses = <<Addr(1)>>
    /\ Multicasts # {}

(***************************************************************************)
(* SendForwardMsg and the stopped proxy handler.                           *)
(***************************************************************************)
\* the call was made while the proxy handler was stopped (the handler does
\* not move during the call of SpecSend)
CalledWhileStopped == pc # "idle" /\ ~running

\* C11 as stated: every call made while the handler is stopped fails with
\* ErrStoppedProxyHandler and transmits nothing, with or without explicit
\* proxy peers
C11_StoppedCallFails ==
    (CalledWhileStopped /\ pc = "done") =>
        /\ sendErr = ErrStoppedProxyHandler
        /\ unicasts = EmptyMap

\* C11 amended: a call without explicit proxy peers made while the handler
\* is stopped fails with ErrStoppedProxyHandler and transmits nothing; a
\* call with explicit proxy peers does not ask the handler, transmits to
\* the given peers and returns nil
C11_StoppedCallFailsWithoutExplicitProxies ==
    CalledWhileStopped =>
        IF args.proxyPeers = NilPeers
        THEN /\ pc = "done"
             /\ sendErr = ErrStoppedProxyHandler
             /\ unicasts = EmptyMap
        ELSE /\ sendErr = NilErr
             /\ pc = "done" =>
                   \A peer \in Elements(args.proxyPeers) :
                       PayloadFor(peer) # NilBytes => Len(SentTo(peer)) = 1

\* a stopped handler that has a connected proxy for a requested address,
\* and the call for that address failed without a transmission
C11_Witness ==
    /\ CalledWhileStopped
    /\ args.proxyPeers = NilPeers
    /\ args.payload # NilBytes
    /\ \E a \in Elements(args.validatorAddresses) :
          /\ a \in DOMAIN assignments
          /\ proxies[assignments[a]].peer # NilPeer
    /\ sendErr = ErrStoppedProxyHandler
    /\ unicasts = EmptyMap

(***************************************************************************)
(* SendForwardMsg: proxies without a peer, nil payloads, exclusivity.      *)
(***************************************************************************)
\* the call asked the handler and got an answer (it may still be sending)
Resolved == pc # "idle" /\ args.proxyPeers = NilPeers /\ lookupErr = NilErr

\* the retrieved addresses whose proxy has no peer
Unpeered == {a \in DOMAIN valAssignments : valAssignments[a].peer = NilPeer}

\* the addresses in the envelopes transmitted to a peer
Destinations(peer) ==
    UNION {Elements(EnvelopeIn(SentTo(peer)[i].payload).DestAddresses) :
              i \in 1..Len(SentTo(peer))}

\* C18: without explicit proxy peers, an address whose proxy has no peer is
\* like an unassigned one: it is in no envelope, nothing goes to a nil
\* peer, no error is returned, and when every requested address is of
\* that kind the call returns nil without a transmission
C18_UnpeeredProxyIsSkipped ==
    Resolved =>
        /\ NilPeer \notin DOMAIN proxyToAddressesMap
        /\ NilPeer \notin DOMAIN unicasts
        /\ \A peer \in DOMAIN unicasts : Destinations(peer) \cap Unpeered = {}
        /\ sendErr = NilErr
        /\ (DOMAIN valAssignments = Unpeered) => (pc = "done" /\ unicasts = EmptyMap)

\* one requested address has a proxy without a peer, the other one a
\* connected proxy: one envelope, for the second address only
C18_Witness ==
    /\ Resolved
    /\ pc = "done"
    /\ Unpeered = {Addr(1)}
    /\ DOMAIN unicasts = {"c2"}
    /\ Destinations("c2") = {Addr(2)}
    /\ sendErr = NilErr

\* C20: a proxy whose payload is nil (nil shared payload and no specific
\* one, or a nil specific one) gets no transmission, every other proxy of
\* the call gets its one transmission, and the call returns nil
C20_NilPayloadSkipsProxy ==
    (pc = "done" /\ lookupErr = NilErr) =>
        /\ sendErr = NilErr
        /\ \A peer \in DOMAIN proxyToAddressesMap :
              Len(SentTo(peer)) = IF PayloadFor(peer) = NilBytes THEN 0 ELSE 1

\* a nil specific payload for one proxy next to a shared payload: the other
\* proxy got the shared payload
C20_Witness ==
    /\ pc = "done"
    /\ {"c1", "c2"} \subseteq DOMAIN proxyToAddressesMap
    /\ args.payload # NilBytes
    /\ PayloadFor("c1") = NilBytes
    /\ SentTo("c1") = <<>>
    /\ Len(SentTo("c2")) = 1
    /\ sendErr = NilErr

\* C13: every validator address is assigned to at most one proxy, a proxy
\* of the proxy set, and in a call without explicit proxy peers no address
\* is in the envelopes of two peers
C13_AssignmentExclusive ==
    /\ \A a \in Addresses :
          Cardinality({id \in ProxyIDs : a \in DOMAIN assignments /\ assignments[a] = id}) <= 1
    /\ \A a \in DOMAIN assignments : assignments[a] \in DOMAIN proxies
    /\ Resolved =>
          \A p, q \in DOMAIN unicasts :
              p # q => Destinations(p) \cap Destinations(q) = {}

\* two connected proxies with one address each, both got their envelope
C13_Witness ==
    /\ Resolved
    /\ pc = "done"
    /\ DOMAIN unicasts = {"c1", "c2"}
    /\ Destinations("c1") # {}
    /\ Destinations("c2") # {}
    /\ Destinations("c1") \cap Destinations("c2") = {}

(***************************************************************************)
(* End to end: explicit proxy peers, and the handler running during a      *)
(* call.                                                                   *)
(***************************************************************************)
\* C19: with explicit proxy peers the handler is not asked and the
\* addresses of the call are not used: every envelope has an empty address
\* list, and the proxy multicasts it with an empty address list
C19_ExplicitProxiesGetNoAddresses ==
    (pc # "idle" /\ args.proxyPeers # NilPeers) =>
        /\ valAssignments = EmptyMap
        /\ lookupErr = NilErr
        /\ \A peer \in DOMAIN unicasts : \A i \in 1..Len(unicasts[peer]) :
              LET envelope == EnvelopeIn(unicasts[peer][i].payload) IN
              envelope.ok /\ envelope.DestAddresses = <<>>
        /\ (hfm.called /\ hfm.handled /\ hfm.err = NilErr) =>
              (Multicasts # {} /\ \A k \in Multicasts : hfm.backend[k].destAddresses = <<>>)

\* the address of the call is assigned to the connected proxy the call
\* names, and the proxy multicast the message to nobody in particular
C19_Witness ==
    /\ args.proxyPeers = <<"c1">>
    /\ args.validatorAddresses = <<Addr(1)>>
    /\ Addr(1) \in DOMAIN assignments
    /\ "proxy1" \in DOMAIN proxies
    /\ proxies["proxy1"].peer = "c1"
    /\ hfm.called
    /\ hfm.err = NilErr
    /\ \E k \in Multicasts : hfm.backend[k].destAddresses = <<>>

\* the peers of the proxies as the handler returned them
SnapshotPeers == {valAssignments[a].peer : a \in DOMAIN valAssignments} \ {NilPeer}

C17_OnlyProxiedValidatorCausesMulticast ==
    /\ [](hfm.called =>
            /\ hfm.backend # <<>> => Authorized
            /\ ~Authorized => (Multicasts = {} /\ CertificateChecks = {}))
    /\ [][hfm' # hfm => proxiedValidator' = proxiedValidator]_vars

\* a second connection of the registered validator's node had its enode
\* certificate handled and multicast
C17_Witness ==
    /\ hfm.called
    /\ hfm.registered = "v"
    /\ hfm.peer = "vb"
    /\ CertificateChecks # {}
    /\ Multicasts # {}

(***************************************************************************)
(* The registration of the proxied validator.                              *)
(***************************************************************************)
\* C12: the proxy has the proxied validator of the last registration: the
\* peer of a Register, which replaces the one before it; none after an
\* Unregister of the registered peer, and then no forward message is
\* accepted; the one before after an Unregister of another peer.  Forward
\* messages are accepted from the node of the registered peer only
C12_LastRegistrationCounts ==
    /\ registration.op = "none" => proxiedValidator = NilPeer
    /\ registration.op = "register" => proxiedValidator = registration.peer
    /\ registration.op = "unregister" =>
          proxiedValidator = IF registration.before = registration.peer
                             THEN NilPeer
                             ELSE registration.before
    /\ hfm.called =>
          (hfm.handled <=> (hfm.registered # NilPeer
                            /\ NodeID(hfm.registered) = NodeID(hfm.peer)))

\* a second validator registered over the first one, and a message of the
\* first one is ignored
C12_Witness ==
    /\ registration = [op |-> "register", peer |-> "x", before |-> "v"]
    /\ hfm.called
    /\ hfm.registered = "x"
    /\ hfm.peer = "v"
    /\ ~hfm.handled

(***************************************************************************)
(* The proxy handler: a proxy that disconnects and reconnects.             *)
(***************************************************************************)
\* C14: after the disconnect of a proxy, and after the reconnect that
\* follows it at once, the assignments are what they were before the
\* disconnect; the disconnect changes the peer and the disconnectTS of
\* that proxy and nothing else, the reconnect its peer
C14_FlapKeepsAssignments ==
    /\ flap.op # "none" => assignments = flap.assignments
    /\ flap.op = "disconnected" =>
          proxies = [flap.proxies EXCEPT ![flap.id].peer = NilPeer,
                                         ![flap.id].disconnectTS = flap.at]
    /\ flap.op = "reconnected" =>
          /\ proxies[flap.id].peer # NilPeer
          /\ proxies = [flap.proxies EXCEPT ![flap.id].peer = proxies[flap.id].peer,
                                            ![flap.id].disconnectTS = flap.at]

\* a proxy with two validators, added at one time, disconnected at a later
\* time and reconnected, next to a second proxy it could have lost them to
C14_Witness ==
    /\ flap.op = "reconnected"
    /\ flap.id = "proxy1"
    /\ flap.proxies["proxy1"].disconnectTS < flap.at
    /\ proxies["proxy1"].disconnectTS = flap.at
    /\ "proxy2" \in DOMAIN proxies
    /\ DOMAIN assignments = Addresses
    /\ \A a \in Addresses : assignments[a] = "proxy1"

(***************************************************************************)
(* The codec.                                                              *)
(***************************************************************************)
\* C15: decoding what was encoded gives the value that was encoded, every
\* field and the order of the list kept; a nil list is the empty list on
\* the wire and is decoded as the empty list
C15_RoundTrip ==
    wire.stage = "decoded" =>
        /\ wire.decoded.ok
        /\ IF wire.type = "ForwardMessage"
           THEN /\ wire.decoded.Code = wire.value.Code
                /\ wire.decoded.Msg = wire.value.Msg
                /\ wire.decoded.DestAddresses =
                      IF wire.value.DestAddresses = NilAddrs
                      THEN <<>> ELSE wire.value.DestAddresses
           ELSE wire.decoded.ValEnodes =
                      IF wire.value.ValEnodes = NilValEnodes
                      THEN <<>> ELSE wire.value.ValEnodes

\* a batch of two records that differ in every field came back in its order
C15_Witness ==
    /\ wire.stage = "decoded"
    /\ wire.type = "valEnodesShareData"
    /\ wire.value.ValEnodes # NilValEnodes
    /\ Len(wire.value.ValEnodes) = 2
    /\ wire.value.ValEnodes[1].Address # wire.value.ValEnodes[2].Address
    /\ wire.value.ValEnodes[1].EnodeURL = <<101, 110>>
    /\ wire.value.ValEnodes[2].EnodeURL = <<>>
    /\ wire.value.ValEnodes[1].Version = 300
    /\ wire.value.ValEnodes[2].Version = 0
    /\ wire.decoded.ok
    /\ wire.decoded.ValEnodes = wire.value.ValEnodes

====
